---------------------------- MODULE Spec2Model ----------------------------
(***************************************************************************)
(* A model of create-pr-from-jira (ghpr): one run of the command-line      *)
(* tool, from flag parsing to process exit.  The repository holds two      *)
(* entry points, both `package main`:                                      *)
(*   "root" : src/unnamed/part_000     (discovers the default branch,      *)
(*            prefixes the title with the issue key, opens a draft PR)     *)
(*   "cmd"  : src/cmd/cli/pr/main.go   (the file .goreleaser.yml builds;   *)
(*            -base defaults to "main")                                    *)
(* The run is sequential; every action below is one step of main().        *)
(*                                                                         *)
(* Text that the program takes apart (git output, the remote URL, branch   *)
(* names) is a sequence of one-character strings, so that TrimSpace,       *)
(* TrimSuffix, HasPrefix and Split are computed as Go computes them.       *)
(* Text that the program only copies or concatenates (issue key, summary,  *)
(* JIRA base URL, HTTP bodies) is a TLA+ string.                           *)
(***************************************************************************)
EXTENDS Integers, Sequences, FiniteSets, TLC

(***************************************************************************)
(* Bounds of the model.                                                    *)
(***************************************************************************)
\* Longest owner / repository name drawn from SegChars.
MaxSegLen == 2

(***************************************************************************)
(* Program constants.                                                      *)
(***************************************************************************)
StatusOK == 200
StatusCreated == 201
\* log.Fatalf ends the process with os.Exit(1); a Go panic ends it with 2.
ExitFatal == 1
ExitPanic == 2

(***************************************************************************)
(* package strings                                                         *)
(***************************************************************************)
\* unicode.IsSpace, restricted to the characters the model uses.
IsSpace(c) == c \in {" ", "\n", "\t", "\r"}

RECURSIVE TrimLeft(_)
TrimLeft(s) ==
    IF s # <<>> /\ IsSpace(Head(s)) THEN TrimLeft(Tail(s)) ELSE s

RECURSIVE TrimRight(_)
TrimRight(s) ==
    IF s # <<>> /\ IsSpace(s[Len(s)])
    THEN TrimRight(SubSeq(s, 1, Len(s) - 1))
    ELSE s

\* strings.TrimSpace
TrimSpace(s) == TrimRight(TrimLeft(s))

\* strings.HasPrefix
HasPrefix(s, p) == Len(s) >= Len(p) /\ SubSeq(s, 1, Len(p)) = p

\* strings.HasSuffix
HasSuffix(s, x) ==
    Len(s) >= Len(x) /\ SubSeq(s, Len(s) - Len(x) + 1, Len(s)) = x

\* strings.TrimSuffix: the suffix is removed once, when present.
TrimSuffix(s, x) ==
    IF HasSuffix(s, x) THEN SubSeq(s, 1, Len(s) - Len(x)) ELSE s

\* strings.Split(s, sep) for a one-character sep: n separators give n+1
\* parts, and Split("", sep) is the one-element list [""].
RECURSIVE Split(_, _)
Split(s, sep) ==
    IF \A i \in 1..Len(s) : s[i] # sep
    THEN <<s>>
    ELSE LET i == CHOOSE k \in 1..Len(s) :
                     s[k] = sep /\ \A j \in 1..(k - 1) : s[j] # sep
         IN  <<SubSeq(s, 1, i - 1)>> \o Split(SubSeq(s, i + 1, Len(s)), sep)

(***************************************************************************)
(* Errors and pointers.                                                    *)
(***************************************************************************)
\* A Go error value: its message and what it formats in: a URL (%s of the
\* remote URL), an HTTP status (0 when none) and a response body.
Err(msg, url, status, body) ==
    [msg |-> msg, url |-> url, status |-> status, body |-> body]
Nil == Err("", <<>>, 0, "")

\* A *string: nil, or a pointer to val.
NilPtr == [nil |-> TRUE, val |-> <<>>]
\* func ptr(s string) *string
ptr(s) == [nil |-> FALSE, val |-> s]

(***************************************************************************)
(* Git introspection.                                                      *)
(***************************************************************************)
HttpsPrefix == <<"h", "t", "t", "p", "s", ":", "/", "/">>
GitAtPrefix == <<"g", "i", "t", "@">>
DotGit == <<".", "g", "i", "t">>

\* OwnerRepo with the ".git" suffix left on the URL (the TrimSuffix calls
\* forgotten).
OwnerRepoKeepSuffix(url) ==
    IF HasPrefix(url, HttpsPrefix)
    THEN LET parts == Split(url, "/")
         IN  IF Len(parts) >= 2
             THEN [owner |-> parts[Len(parts) - 1], repo |-> parts[Len(parts)]]
             ELSE [owner |-> <<>>, repo |-> <<>>]
    ELSE IF HasPrefix(url, GitAtPrefix)
    THEN LET parts == Split(url, ":")
         IN  IF Len(parts) = 2
             THEN LET subParts == Split(parts[2], "/")
                  IN  IF Len(subParts) = 2
                      THEN [owner |-> subParts[1], repo |-> subParts[2]]
                      ELSE [owner |-> <<>>, repo |-> <<>>]
             ELSE [owner |-> <<>>, repo |-> <<>>]
    ELSE [owner |-> <<>>, repo |-> <<>>]

\* The owner/repo pair the two branches of getGitHubRepoDetails assign
\* (both "" when neither assigns).
OwnerRepo(url) ==
    IF HasPrefix(url, HttpsPrefix)
    THEN LET parts == Split(TrimSuffix(url, DotGit), "/")
         IN  IF Len(parts) >= 2
             THEN [owner |-> parts[Len(parts) - 1], repo |-> parts[Len(parts)]]
             ELSE [owner |-> <<>>, repo |-> <<>>]
    ELSE IF HasPrefix(url, GitAtPrefix)
    THEN LET parts == Split(TrimSuffix(url, DotGit), ":")
         IN  IF Len(parts) = 2
             THEN LET subParts == Split(parts[2], "/")
                  IN  IF Len(subParts) = 2
                      THEN [owner |-> subParts[1], repo |-> subParts[2]]
                      ELSE [owner |-> <<>>, repo |-> <<>>]
             ELSE [owner |-> <<>>, repo |-> <<>>]
    ELSE [owner |-> <<>>, repo |-> <<>>]

\* getGitHubRepoDetails, for a run of `git config --get remote.origin.url`
\* that failed (ok = FALSE) or printed `output`.
getGitHubRepoDetails(ok, output) ==
    IF ~ok
    THEN [owner |-> <<>>, repo |-> <<>>,
          err |-> Err("failed to fetch remote origin URL", <<>>, 0, "")]
    ELSE LET url == TrimSpace(output)
             p   == OwnerRepo(url)
         IN  IF p.owner = <<>> \/ p.repo = <<>>
             THEN [owner |-> <<>>, repo |-> <<>>,
                   err |-> Err("could not parse owner and repo from URL",
                               url, 0, "")]
             ELSE [owner |-> p.owner, repo |-> p.repo, err |-> Nil]

\* getCurrentBranch of the root entry point (returns *string), for a run of
\* `git rev-parse --abbrev-ref HEAD`.
getCurrentBranch(ok, output) ==
    IF ~ok
    THEN [val |-> NilPtr, err |-> Err("failed to get current branch", <<>>, 0, "")]
    ELSE [val |-> ptr(TrimSpace(output)), err |-> Nil]

\* getCurrentBranch of cmd/cli/pr (returns string: "" with the error).
getCurrentBranchCmd(ok, output) ==
    IF ~ok
    THEN [val |-> ptr(<<>>), err |-> Err("failed to get current branch", <<>>, 0, "")]
    ELSE [val |-> ptr(TrimSpace(output)), err |-> Nil]

\* getDefaultBranch, for a run of `git symbolic-ref refs/remotes/origin/HEAD`.
\* Split never returns an empty list, so the last return is dead code.
getDefaultBranch(ok, output) ==
    IF ~ok
    THEN [val |-> NilPtr, err |-> Err("failed to get default branch", <<>>, 0, "")]
    ELSE LET parts == Split(TrimSpace(output), "/")
         IN  IF Len(parts) > 0
             THEN [val |-> ptr(parts[Len(parts)]), err |-> Nil]
             ELSE [val |-> NilPtr,
                   err |-> Err("could not parse default branch from output",
                               output, 0, "")]

(***************************************************************************)
(* encoding/json, on the documents the model's servers answer with.        *)
(***************************************************************************)
JiraDocFull == "{\"fields\":{\"summary\":\"Fix login bug\"}}"
JiraDocMore == "{\"key\":\"PROJ-42\",\"fields\":{\"summary\":\"Add cache\",\"labels\":[]}}"
JiraDocEmptySummary == "{\"fields\":{\"summary\":\"\"}}"
JiraDocNoFields == "{\"errorMessages\":[]}"
JiraDocNoSummary == "{\"fields\":{}}"
JiraDocSummaryNumber == "{\"fields\":{\"summary\":42}}"
JiraDocArray == "[]"
JiraDocNotJSON == "<html>Login</html>"

GitHubDocCreated == "{\"url\":\"https://api.github.com/repos/o/r/pulls/1\"}"
GitHubDocMessage == "{\"message\":\"Validation Failed\"}"
GitHubDocNotJSON == "Bad gateway"

\* What the JSON scanner sees in a document: whether it is valid JSON, the
\* kind of the top-level value, and the kind and text of the members the
\* two target structs name ("absent" when the member is not there).
JSONShape(doc) ==
    LET shape(valid, top, fields, summary, summaryText, url, urlText) ==
            [valid |-> valid, top |-> top, fields |-> fields,
             summary |-> summary, summaryText |-> summaryText,
             url |-> url, urlText |-> urlText]
    IN  CASE doc = JiraDocFull ->
               shape(TRUE, "object", "object", "string", "Fix login bug", "absent", "")
          [] doc = JiraDocMore ->
               shape(TRUE, "object", "object", "string", "Add cache", "absent", "")
          [] doc = JiraDocEmptySummary ->
               shape(TRUE, "object", "object", "string", "", "absent", "")
          [] doc = JiraDocNoFields ->
               shape(TRUE, "object", "absent", "absent", "", "absent", "")
          [] doc = JiraDocNoSummary ->
               shape(TRUE, "object", "object", "absent", "", "absent", "")
          [] doc = JiraDocSummaryNumber ->
               shape(TRUE, "object", "object", "number", "", "absent", "")
          [] doc = JiraDocArray ->
               shape(TRUE, "array", "absent", "absent", "", "absent", "")
          [] doc = GitHubDocCreated ->
               shape(TRUE, "object", "absent", "absent", "", "string",
                     "https://api.github.com/repos/o/r/pulls/1")
          [] doc = GitHubDocMessage ->
               shape(TRUE, "object", "absent", "absent", "", "absent", "")
          [] OTHER ->
               shape(FALSE, "none", "absent", "absent", "", "absent", "")

\* json.Unmarshal(body, &issue) for `var issue JIRAIssue`: a syntax error or
\* a member of the wrong JSON kind is an error; a member that is absent
\* leaves the field at its zero value "" and is no error.
UnmarshalJIRAIssue(doc) ==
    LET j == JSONShape(doc)
        bad == Err("Error unmarshaling JIRA response", <<>>, 0, "")
    IN  IF ~j.valid THEN [summary |-> "", err |-> bad]
        ELSE IF j.top # "object" THEN [summary |-> "", err |-> bad]
        ELSE IF j.fields = "absent" THEN [summary |-> "", err |-> Nil]
        ELSE IF j.fields # "object" THEN [summary |-> "", err |-> bad]
        ELSE IF j.summary = "absent" THEN [summary |-> "", err |-> Nil]
        ELSE IF j.summary # "string" THEN [summary |-> "", err |-> bad]
        ELSE [summary |-> j.summaryText, err |-> Nil]

\* json.Unmarshal(body, &prResp) for `var prResp PullRequestResponse`.
UnmarshalPullRequestResponse(doc) ==
    LET j == JSONShape(doc)
        bad == Err("json: cannot unmarshal", <<>>, 0, "")
    IN  IF ~j.valid THEN [url |-> "", err |-> bad]
        ELSE IF j.top # "object" THEN [url |-> "", err |-> bad]
        ELSE IF j.url = "absent" THEN [url |-> "", err |-> Nil]
        ELSE IF j.url # "string" THEN [url |-> "", err |-> bad]
        ELSE [url |-> j.urlText, err |-> Nil]

(***************************************************************************)
(* Issue lookup.                                                           *)
(***************************************************************************)
\* getJiraIssueTitle taking every 2xx status for success.
getJiraIssueTitleAny2xx(resp) ==
    IF ~resp.sent
    THEN [val |-> "", err |-> Err("Error fetching JIRA issue", <<>>, 0, "")]
    ELSE IF resp.status < 200 \/ resp.status >= 300
    THEN [val |-> "",
          err |-> Err("Failed to fetch JIRA issue. Status", <<>>, resp.status, "")]
    ELSE IF ~resp.readOk
    THEN [val |-> "", err |-> Err("Error reading JIRA response body", <<>>, 0, "")]
    ELSE LET u == UnmarshalJIRAIssue(resp.body)
         IN  IF u.err # Nil
             THEN [val |-> "", err |-> u.err]
             ELSE [val |-> u.summary, err |-> Nil]

\* getJiraIssueTitle, for the answer `resp` to its GET: sent = FALSE is a
\* transport error of client.Do, readOk = FALSE an error of io.ReadAll.
getJiraIssueTitle(resp) ==
    IF ~resp.sent
    THEN [val |-> "", err |-> Err("Error fetching JIRA issue", <<>>, 0, "")]
    ELSE IF resp.status # StatusOK
    THEN [val |-> "",
          err |-> Err("Failed to fetch JIRA issue. Status", <<>>, resp.status, "")]
    ELSE IF ~resp.readOk
    THEN [val |-> "", err |-> Err("Error reading JIRA response body", <<>>, 0, "")]
    ELSE LET u == UnmarshalJIRAIssue(resp.body)
         IN  IF u.err # Nil
             THEN [val |-> "", err |-> u.err]
             ELSE [val |-> u.summary, err |-> Nil]

(***************************************************************************)
(* Request assembly.                                                       *)
(***************************************************************************)
\* The PullRequest literal of the root entry point.
PullRequest(jiraBaseURL, key, title, head, base) ==
    [title |-> "[" \o key \o "] " \o title,
     body  |-> jiraBaseURL \o "/browse/" \o key,
     head  |-> head,
     base  |-> base,
     draft |-> TRUE]

\* The PullRequest literal of cmd/cli/pr, whose struct has no Draft field
\* (GitHub then opens a pull request that is not a draft).
PullRequestCmd(jiraBaseURL, key, title, head, base) ==
    [title |-> title,
     body  |-> jiraBaseURL \o "/browse/" \o key \o ".",
     head  |-> head,
     base  |-> base,
     draft |-> FALSE]

(***************************************************************************)
(* What a run is given: its command line and environment, and the answers  *)
(* of git, JIRA and GitHub.                                                *)
(***************************************************************************)
EnvNames == {"JIRA_BASE_URL", "JIRA_EMAIL", "JIRA_API_TOKEN", "GITHUB_TOKEN"}

\* os.Getenv yields "" for a variable that is unset or empty.
Environments ==
    { e \in [EnvNames -> {"", "https://jira.example.com", "secret"}] :
        /\ e["JIRA_BASE_URL"] # "secret"
        /\ \A n \in EnvNames \ {"JIRA_BASE_URL"} : e[n] # "https://jira.example.com" }

IssueKeys == {"", "PROJ-42", "OPS-7"}

\* -base: not on the command line, given as "", or given as "dev".
BaseArgs ==
    { [given |-> FALSE, val |-> <<>>],
      [given |-> TRUE, val |-> <<>>],
      [given |-> TRUE, val |-> <<"d", "e", "v">>] }

\* The default of the -base flag in each entry point.
FlagDefault(e) == IF e = "root" THEN <<>> ELSE <<"m", "a", "i", "n">>

NoRun == [ok |-> FALSE, output |-> <<>>]

\* `git rev-parse --abbrev-ref HEAD`: exits non-zero, or prints the branch.
HeadRuns ==
    { NoRun,
      [ok |-> TRUE, output |-> <<"f", "i", "x", "\n">>],
      [ok |-> TRUE, output |-> <<"H", "E", "A", "D", "\n">>] }

RefPrefix ==
    <<"r", "e", "f", "s", "/", "r", "e", "m", "o", "t", "e", "s", "/",
      "o", "r", "i", "g", "i", "n", "/">>

\* `git symbolic-ref refs/remotes/origin/HEAD`: exits non-zero (the ref is
\* not set), or prints the ref it resolves to.
SymRefRuns ==
    { NoRun,
      [ok |-> TRUE, output |-> RefPrefix \o <<"m", "a", "i", "n", "\n">>],
      [ok |-> TRUE, output |-> RefPrefix \o <<"t", "r", "u", "n", "k", "\n">>] }

\* Owner and repository names: every name of at most MaxSegLen characters
\* over SegChars (the empty name included), and names that hold a
\* separator, white space or the suffix the parser strips.
SegChars == {"a", "b"}
PlainSegs == UNION { [1..n -> SegChars] : n \in 0..MaxSegLen }
OddSegs ==
    { <<"a", "/", "b">>, <<"a", ":", "b">>, <<"a", " ">>,
      <<"a">> \o DotGit, DotGit }
Segs == PlainSegs \cup OddSegs
Hosts == { <<"h">> }

\* The remote URL of each shape, from its host, owner and repo.
RemoteURL(shape, host, owner, repo) ==
    CASE shape = "https.git" ->
           HttpsPrefix \o host \o <<"/">> \o owner \o <<"/">> \o repo \o DotGit
      [] shape = "https" ->
           HttpsPrefix \o host \o <<"/">> \o owner \o <<"/">> \o repo
      [] shape = "ssh.git" ->
           GitAtPrefix \o host \o <<":">> \o owner \o <<"/">> \o repo \o DotGit
      [] shape = "https-one-segment" ->
           HttpsPrefix \o host \o <<"/">> \o repo
      [] shape = "https-no-path" ->
           HttpsPrefix \o host
      [] shape = "ssh-one-segment" ->
           GitAtPrefix \o host \o <<":">> \o repo \o DotGit
      [] shape = "http" ->
           <<"h", "t", "t", "p", ":", "/", "/">> \o host \o <<"/">> \o owner
               \o <<"/">> \o repo
      [] shape = "ssh-scheme" ->
           <<"s", "s", "h", ":", "/", "/">> \o GitAtPrefix \o host \o <<"/">>
               \o owner \o <<"/">> \o repo \o DotGit

WellFormedShapes == {"https.git", "https", "ssh.git"}
MissingSegmentShapes == {"https-one-segment", "https-no-path", "ssh-one-segment"}
OtherSchemeShapes == {"http", "ssh-scheme"}

NoRemote ==
    [ok |-> FALSE, shape |-> "none", host |-> <<>>, owner |-> <<>>,
     repo |-> <<>>, url |-> <<>>, output |-> <<>>]

Remote(shape, host, owner, repo) ==
    [ok |-> TRUE, shape |-> shape, host |-> host, owner |-> owner,
     repo |-> repo, url |-> RemoteURL(shape, host, owner, repo),
     output |-> RemoteURL(shape, host, owner, repo) \o <<"\n">>]

\* `git config --get remote.origin.url` prints a URL of one of the three
\* accepted shapes (owner or repo may be empty) and a line end.
ShapedRemoteRuns ==
    { Remote(sh, h, o, r) :
        sh \in WellFormedShapes, h \in Hosts, o \in Segs, r \in Segs }

\* It exits non-zero (no such remote), or prints a URL of another shape.
OtherRemoteRuns ==
    {NoRemote}
    \cup { Remote(sh, h, <<>>, r) :
             sh \in MissingSegmentShapes, h \in Hosts, r \in PlainSegs \ {<<>>} }
    \cup { Remote(sh, h, <<"a">>, <<"b">>) : sh \in OtherSchemeShapes, h \in Hosts }

NoResponse == [sent |-> FALSE, status |-> 0, readOk |-> FALSE, body |-> ""]

Response(status, body) ==
    [sent |-> TRUE, status |-> status, readOk |-> TRUE, body |-> body]

JiraDocs ==
    { JiraDocFull, JiraDocMore, JiraDocEmptySummary, JiraDocNoFields,
      JiraDocNoSummary, JiraDocSummaryNumber, JiraDocArray, JiraDocNotJSON }

\* The answers to the JIRA GET: no answer (client.Do fails), an answer whose
\* body cannot be read, a status with its body.
JiraResponses ==
    { NoResponse, [sent |-> TRUE, status |-> 200, readOk |-> FALSE, body |-> ""] }
    \cup { Response(200, d) : d \in JiraDocs }
    \cup { Response(st, d) : st \in {204, 401, 404}, d \in {JiraDocFull, JiraDocNotJSON} }

\* The answers to the GitHub POST.  body is what io.ReadAll delivered.
GitHubResponses ==
    {NoResponse}
    \cup { Response(201, d) :
             d \in {GitHubDocCreated, GitHubDocMessage, GitHubDocNotJSON} }
    \cup { Response(422, d) : d \in {GitHubDocMessage, GitHubDocNotJSON} }
    \cup { Response(200, GitHubDocCreated) }

(***************************************************************************)
(* The state of a run.                                                     *)
(***************************************************************************)
VARIABLES
    entry,         \* which main() runs: "root" or "cmd"
    env,           \* the environment
    jiraIssueKey,  \* -issue on the command line ("" when absent)
    baseArg,       \* -base on the command line
    pc,            \* where main() is
    baseBranch,    \* the package variable baseBranch (*string)
    sourceBranch,  \* main's sourceBranch
    err,           \* main's err
    githubOwner, githubRepo, prTitle,
    headRun, symRefRun, remote, jiraResp, githubResp, \* the answers received
    calls,         \* the subprocesses and HTTP requests made, in order
    posted,        \* the pull request POSTed to GitHub
    stdout,        \* the lines printed to standard output
    fatal,         \* what the run ended on: a log.Fatalf or a panic
    exitCode       \* the exit code, -1 while the process runs

vars ==
    <<entry, env, jiraIssueKey, baseArg, pc, baseBranch, sourceBranch, err,
      githubOwner, githubRepo, prTitle, headRun, symRefRun, remote, jiraResp,
      githubResp, calls, posted, stdout, fatal, exitCode>>

inputs == <<entry, env, jiraIssueKey, baseArg>>
answers == <<headRun, symRefRun, remote, jiraResp, githubResp>>
locals == <<baseBranch, sourceBranch, err, githubOwner, githubRepo, prTitle>>

NoFatal == [prefix |-> "", err |-> Nil]
NoPR ==
    [sent |-> FALSE, owner |-> <<>>, repo |-> <<>>, title |-> "", body |-> "",
     head |-> <<>>, base |-> <<>>, draft |-> FALSE]

\* One printed line: its format and the values formatted in.
Line(format, text, a, b) == [format |-> format, text |-> text, a |-> a, b |-> b]

Call(op, ok) == [op |-> op, ok |-> ok]

Init ==
    /\ entry \in {"root", "cmd"}
    /\ env \in Environments
    /\ jiraIssueKey \in IssueKeys
    /\ baseArg \in BaseArgs
    /\ pc = "main"
    /\ baseBranch = ptr(FlagDefault(entry))
    /\ sourceBranch = NilPtr
    /\ err = Nil
    /\ githubOwner = <<>>
    /\ githubRepo = <<>>
    /\ prTitle = ""
    /\ headRun = NoRun
    /\ symRefRun = NoRun
    /\ remote = NoRemote
    /\ jiraResp = NoResponse
    /\ githubResp = NoResponse
    /\ calls = <<>>
    /\ posted = NoPR
    /\ stdout = <<>>
    /\ fatal = NoFatal
    /\ exitCode = -1

\* log.Fatalf(prefix + ": %v", e): the message is logged and the process
\* exits with ExitFatal at once.
Fatalf(prefix, e) ==
    /\ fatal' = [prefix |-> prefix, err |-> e]
    /\ exitCode' = ExitFatal
    /\ pc' = "done"

\* EnvironmentSet with GITHUB_TOKEN left out of the condition.
EnvironmentSetNoGitHubToken(e) ==
    /\ e["JIRA_BASE_URL"] # ""
    /\ e["JIRA_EMAIL"] # ""
    /\ e["JIRA_API_TOKEN"] # ""

\* The required environment variables are all set.
EnvironmentSet(e) ==
    /\ e["JIRA_BASE_URL"] # ""
    /\ e["JIRA_EMAIL"] # ""
    /\ e["JIRA_API_TOKEN"] # ""
    /\ e["GITHUB_TOKEN"] # ""

\* flag.Parse and the two validations that open main().
ValidateConfig ==
    /\ pc = "main"
    /\ baseBranch' = IF baseArg.given THEN ptr(baseArg.val) ELSE baseBranch
    /\ IF ~EnvironmentSet(env)
       THEN Fatalf("Error: Required environment variables are not set.", Nil)
       ELSE IF jiraIssueKey = ""
       THEN Fatalf("Error: The JIRA issue key must be provided using the -issue flag.", Nil)
       ELSE /\ pc' = "currentBranch"
            /\ UNCHANGED <<fatal, exitCode>>
    /\ UNCHANGED <<inputs, answers, sourceBranch, err, githubOwner, githubRepo,
                   prTitle, calls, posted, stdout>>

\* sourceBranch, err := getCurrentBranch()
GetCurrentBranch ==
    /\ pc = "currentBranch"
    /\ \E run \in HeadRuns :
        LET r == IF entry = "root"
                 THEN getCurrentBranch(run.ok, run.output)
                 ELSE getCurrentBranchCmd(run.ok, run.output)
        IN  /\ headRun' = run
            /\ sourceBranch' = r.val
            /\ err' = r.err
            /\ calls' = Append(calls, Call("git rev-parse", r.err = Nil))
    /\ pc' = IF entry = "root" THEN "resolveBase" ELSE "checkBranch"
    /\ UNCHANGED <<inputs, symRefRun, remote, jiraResp, githubResp, baseBranch,
                   githubOwner, githubRepo, prTitle, posted, stdout, fatal,
                   exitCode>>

\* NeedsDefaultBranch with the override ignored: discovery always runs.
NeedsDefaultBranchAlways(b) == TRUE

\* The condition of the root entry point's `if` around getDefaultBranch.
NeedsDefaultBranch(b) == b.nil \/ b.val = <<>>

\* baseBranch, err = getDefaultBranch(): err is assigned again, whatever
\* getCurrentBranch returned.
DiscoverDefaultBranch ==
    /\ pc = "resolveBase"
    /\ NeedsDefaultBranch(baseBranch)
    /\ \E run \in SymRefRuns :
        LET r == getDefaultBranch(run.ok, run.output)
        IN  /\ symRefRun' = run
            /\ baseBranch' = r.val
            /\ err' = r.err
            /\ calls' = Append(calls, Call("git symbolic-ref", r.err = Nil))
    /\ pc' = "checkBranch"
    /\ UNCHANGED <<inputs, headRun, remote, jiraResp, githubResp, sourceBranch,
                   githubOwner, githubRepo, prTitle, posted, stdout, fatal,
                   exitCode>>

\* -base was given and is not empty: the `if` is skipped.
KeepBaseBranch ==
    /\ pc = "resolveBase"
    /\ ~NeedsDefaultBranch(baseBranch)
    /\ pc' = "checkBranch"
    /\ UNCHANGED <<inputs, answers, locals, calls, posted, stdout, fatal, exitCode>>

\* if err != nil { log.Fatalf(...) }, then the Printf of *sourceBranch, which
\* panics on a nil pointer (cmd/cli/pr holds a string: nothing to dereference).
CheckBranch ==
    /\ pc = "checkBranch"
    /\ IF err # Nil
       THEN /\ Fatalf("Error getting current branch", err)
            /\ UNCHANGED stdout
       ELSE IF sourceBranch.nil
       THEN /\ fatal' = [prefix |-> "panic: runtime error: invalid memory address or nil pointer dereference",
                         err |-> Nil]
            /\ exitCode' = ExitPanic
            /\ pc' = "done"
            /\ UNCHANGED stdout
       ELSE /\ stdout' = Append(stdout,
                   Line("Using current branch as source branch: %s", "",
                        sourceBranch.val, <<>>))
            /\ pc' = "repoDetails"
            /\ UNCHANGED <<fatal, exitCode>>
    /\ UNCHANGED <<inputs, answers, locals, calls, posted>>

\* githubOwner, githubRepo, err := getGitHubRepoDetails() and the check of
\* err, when `git config` ran as `run`.
RepoDetailsStep(run) ==
    LET r == getGitHubRepoDetails(run.ok, run.output)
    IN  /\ remote' = run
        /\ err' = r.err
        /\ githubOwner' = r.owner
        /\ githubRepo' = r.repo
        /\ calls' = Append(calls, Call("git config", r.err = Nil))
        /\ IF r.err # Nil
           THEN /\ Fatalf("Error fetching GitHub repo details", r.err)
                /\ UNCHANGED stdout
           ELSE /\ stdout' = Append(stdout,
                       Line("GitHub Owner: %s, Repo: %s", "", r.owner, r.repo))
                /\ pc' = "jira"
                /\ UNCHANGED <<fatal, exitCode>>

GetRepoDetails ==
    /\ pc = "repoDetails"
    /\ \/ \E run \in ShapedRemoteRuns : RepoDetailsStep(run)
       \/ \E run \in OtherRemoteRuns : RepoDetailsStep(run)
    /\ UNCHANGED <<inputs, headRun, symRefRun, jiraResp, githubResp, baseBranch,
                   sourceBranch, prTitle, posted>>

\* prTitle, err := getJiraIssueTitle(...)
GetJiraIssueTitle ==
    /\ pc = "jira"
    /\ \E resp \in JiraResponses :
        LET r == getJiraIssueTitle(resp)
        IN  /\ jiraResp' = resp
            /\ err' = r.err
            /\ prTitle' = r.val
            /\ calls' = Append(calls, Call("JIRA GET", r.err = Nil))
            /\ IF r.err # Nil
               THEN /\ Fatalf("Error fetching JIRA issue", r.err)
                    /\ UNCHANGED stdout
               ELSE /\ stdout' = Append(stdout,
                           Line("Fetched JIRA issue title: %s", r.val, <<>>, <<>>))
                    /\ pc' = "submit"
                    /\ UNCHANGED <<fatal, exitCode>>
    /\ UNCHANGED <<inputs, headRun, symRefRun, remote, githubResp, baseBranch,
                   sourceBranch, githubOwner, githubRepo, posted>>

\* The lines printed on status 201.
CreatedLines(e, body) ==
    IF e = "root"
    THEN << Line("Pull request created successfully!", "", <<>>, <<>>),
            Line("%s", UnmarshalPullRequestResponse(body).url, <<>>, <<>>) >>
    ELSE << Line("Pull request created successfully!", "", <<>>, <<>>) >>

\* The pull request is assembled and POSTed, and the answer handled.
SubmitPullRequest ==
    /\ pc = "submit"
    /\ \E resp \in GitHubResponses :
        LET pr == IF entry = "root"
                  THEN PullRequest(env["JIRA_BASE_URL"], jiraIssueKey, prTitle,
                                   sourceBranch.val, baseBranch.val)
                  ELSE PullRequestCmd(env["JIRA_BASE_URL"], jiraIssueKey, prTitle,
                                      sourceBranch.val, baseBranch.val)
        IN  /\ githubResp' = resp
            /\ posted' = [sent |-> TRUE, owner |-> githubOwner, repo |-> githubRepo,
                          title |-> pr.title, body |-> pr.body, head |-> pr.head,
                          base |-> pr.base, draft |-> pr.draft]
            /\ calls' = Append(calls,
                   Call("GitHub POST", resp.sent /\ resp.status = StatusCreated))
            /\ IF ~resp.sent
               THEN /\ Fatalf("Error sending GitHub PR request",
                              Err("Post: no response", <<>>, 0, ""))
                    /\ UNCHANGED stdout
               ELSE IF resp.status = StatusCreated
               THEN /\ stdout' = stdout \o CreatedLines(entry, resp.body)
                    /\ exitCode' = 0
                    /\ pc' = "done"
                    /\ UNCHANGED fatal
               ELSE /\ Fatalf("Failed to create pull request. Status: %s, Response: %s",
                              Err("", <<>>, resp.status, resp.body))
                    /\ UNCHANGED stdout
    /\ UNCHANGED <<inputs, headRun, symRefRun, remote, jiraResp, locals>>

Next ==
    \/ ValidateConfig
    \/ GetCurrentBranch
    \/ DiscoverDefaultBranch
    \/ KeepBaseBranch
    \/ CheckBranch
    \/ GetRepoDetails
    \/ GetJiraIssueTitle
    \/ SubmitPullRequest

Spec == Init /\ [][Next]_vars

(***************************************************************************)
(* Properties.                                                             *)
(***************************************************************************)
\* The run has made the subprocess or request `op`.
Made(op) == \E i \in 1..Len(calls) : calls[i].op = op

\* C1: every failure is terminal.  A step that fails is the last subprocess
\* or request of the run, and a run in which a step failed ends on a
\* reported error (log.Fatalf); in particular so when `git rev-parse` fails.
C1_FailureIsTerminal ==
    /\ \A i \in 1..Len(calls) : ~calls[i].ok => i = Len(calls)
    /\ (pc = "done" /\ \E i \in 1..Len(calls) : ~calls[i].ok)
           => /\ exitCode = 1
              /\ fatal.prefix \in
                   { "Error getting current branch",
                     "Error fetching GitHub repo details",
                     "Error fetching JIRA issue",
                     "Error sending GitHub PR request",
                     "Failed to create pull request. Status: %s, Response: %s" }

\* C2: when -issue is empty or one of the four environment variables is
\* empty or unset, no subprocess and no HTTP request is ever made, and the
\* first step of the run ends it with a non-zero exit code.
C2_ConfigFirst ==
    (jiraIssueKey = "" \/ \E n \in EnvNames : env[n] = "")
        => /\ calls = <<>>
           /\ ~posted.sent
           /\ pc \in {"main", "done"}
           /\ pc = "done" => exitCode = 1 /\ fatal.prefix # ""

\* A run with GITHUB_TOKEN unset (and -issue given) has ended.
C2_Witness ==
    /\ pc = "done"
    /\ env["GITHUB_TOKEN"] = ""
    /\ env["JIRA_BASE_URL"] # "" /\ env["JIRA_EMAIL"] # "" /\ env["JIRA_API_TOKEN"] # ""
    /\ jiraIssueKey # ""
    /\ exitCode = 1

\* C3: when the JIRA GET is answered with a status other than 200, the run
\* has ended on an error carrying that status, with a non-zero exit code,
\* and no pull request was POSTed.
C3_JiraStatusNot200 ==
    (Made("JIRA GET") /\ jiraResp.sent /\ jiraResp.status # 200)
        => /\ pc = "done"
           /\ exitCode = 1
           /\ fatal.prefix = "Error fetching JIRA issue"
           /\ fatal.err.status = jiraResp.status
           /\ ~Made("GitHub POST")
           /\ ~posted.sent

\* JIRA answered 404 and the run has ended.
C3_Witness ==
    /\ Made("JIRA GET")
    /\ jiraResp.sent
    /\ jiraResp.status = 404
    /\ pc = "done"
    /\ fatal.err.status = 404

\* The remote URL came from git and has one of the three accepted shapes,
\* built from a non-empty owner and a non-empty repo.
WellFormedRemote ==
    /\ Made("git config")
    /\ remote.ok
    /\ remote.shape \in {"https.git", "https", "ssh.git"}
    /\ remote.owner # <<>>
    /\ remote.repo # <<>>

\* C5 as stated: for EVERY non-empty OWNER and REPO, the parser returns
\* exactly (OWNER, REPO) for https://host/OWNER/REPO.git, for the same URL
\* without .git, and for git@host:OWNER/REPO.git.
C5_ParsesEveryOwnerRepo ==
    WellFormedRemote
        => /\ githubOwner = remote.owner
           /\ githubRepo = remote.repo
           /\ fatal.prefix # "Error fetching GitHub repo details"

\* A name that is one path segment of either URL form: no "/" and no ":".
OneSegment(s) == \A i \in 1..Len(s) : s[i] \notin {"/", ":"}

\* A repository name the URL can end in unchanged: it does not end in
\* white space and not in the suffix ".git" itself.
KeepsItsEnd(s) ==
    /\ s # <<>>
    /\ s[Len(s)] \notin {" ", "\n", "\t", "\r"}
    /\ ~(Len(s) >= 4 /\ SubSeq(s, Len(s) - 3, Len(s)) = <<".", "g", "i", "t">>)

\* C5, amended: for every non-empty OWNER and REPO that hold no "/" and no
\* ":", with REPO not ending in white space or in ".git", the parser
\* returns exactly (OWNER, REPO) for the three shapes.
C5_ParsesOwnerRepo ==
    (WellFormedRemote /\ OneSegment(remote.owner) /\ OneSegment(remote.repo)
                      /\ KeepsItsEnd(remote.repo))
        => /\ githubOwner = remote.owner
           /\ githubRepo = remote.repo
           /\ fatal.prefix # "Error fetching GitHub repo details"

\* An SSH remote with distinct owner and repo has been parsed and the run
\* goes on to the issue lookup.
C5_Witness ==
    /\ WellFormedRemote
    /\ remote.shape = "ssh.git"
    /\ remote.owner = <<"a", "b">>
    /\ remote.repo = <<"b">>
    /\ githubOwner = <<"a", "b">>
    /\ githubRepo = <<"b">>
    /\ pc = "jira"

\* The remote URL came from git and is malformed: a path segment is
\* missing, the owner or the repo is empty (the other being a name without
\* separator or blank), or the scheme is not one of the two accepted.
MalformedRemote ==
    /\ Made("git config")
    /\ remote.ok
    /\ \/ remote.shape \in {"https-one-segment", "https-no-path", "ssh-one-segment"}
       \/ remote.shape \in {"http", "ssh-scheme"}
       \/ /\ remote.shape \in {"https.git", "https", "ssh.git"}
          /\ remote.owner = <<>> \/ remote.repo = <<>>
          /\ \A s \in {remote.owner, remote.repo} :
                \A i \in 1..Len(s) : s[i] \notin {"/", ":", " "}

\* C6: every malformed remote URL ends the run on a parse error naming the
\* URL; no owner/repo pair is returned for it.
C6_MalformedIsParseError ==
    MalformedRemote
        => /\ pc = "done"
           /\ fatal.prefix = "Error fetching GitHub repo details"
           /\ fatal.err.msg = "could not parse owner and repo from URL"
           /\ fatal.err.url = remote.url
           /\ githubOwner = <<>>
           /\ githubRepo = <<>>

\* C7: the pull request POSTed has title "[K] S" for the issue key K and the
\* fetched summary S, body "{JIRA_BASE_URL}/browse/K" with nothing after
\* it, and the current branch as head.
C7_TitleAndBody ==
    posted.sent
        => /\ posted.title = "[" \o jiraIssueKey \o "] " \o prTitle
           /\ posted.body = env["JIRA_BASE_URL"] \o "/browse/" \o jiraIssueKey
           /\ headRun.ok
           /\ headRun.output = posted.head \o <<"\n">>

\* -base is empty: not on the command line, or given as "".
BaseEmpty == ~baseArg.given \/ baseArg.val = <<>>

\* C8: when -base is empty, the base of the pull request POSTed is the last
\* "/"-separated segment of what `git symbolic-ref refs/remotes/origin/HEAD`
\* printed: not a built-in name, and not empty.
C8_BaseIsDefaultBranch ==
    (posted.sent /\ BaseEmpty)
        => /\ Made("git symbolic-ref")
           /\ symRefRun.ok
           /\ symRefRun.output =
                  <<"r", "e", "f", "s", "/", "r", "e", "m", "o", "t", "e", "s",
                    "/", "o", "r", "i", "g", "i", "n", "/">>
                      \o posted.base \o <<"\n">>
           /\ posted.base # <<>>
           /\ OneSegment(posted.base)

\* C9: when -base is given and not empty, `git symbolic-ref` is never run,
\* and the base of the pull request POSTed is the value given.
C9_BaseOverride ==
    (baseArg.given /\ baseArg.val # <<>>)
        => /\ ~Made("git symbolic-ref")
           /\ symRefRun = [ok |-> FALSE, output |-> <<>>]
           /\ posted.sent => posted.base = baseArg.val

\* The root entry point has POSTed a pull request with -base dev.
C9_Witness ==
    /\ entry = "root"
    /\ baseArg.given
    /\ baseArg.val = <<"d", "e", "v">>
    /\ posted.sent
    /\ posted.base = <<"d", "e", "v">>
    /\ pc = "done"

\* JIRA answered 200 with a body that is not of the shape
\* {fields:{summary:string}}.
JiraShapeMismatch ==
    /\ Made("JIRA GET")
    /\ jiraResp.sent
    /\ jiraResp.status = 200
    /\ jiraResp.readOk
    /\ jiraResp.body \in
         { "<html>Login</html>", "[]", "{\"errorMessages\":[]}",
           "{\"fields\":{}}", "{\"fields\":{\"summary\":42}}" }

\* C10: a 200 answer of the wrong shape ends the run on a decode error,
\* with a non-zero exit code and no pull request POSTed.
C10_ShapeMismatchIsDecodeError ==
    JiraShapeMismatch
        => /\ pc = "done"
           /\ exitCode = 1
           /\ fatal.prefix = "Error fetching JIRA issue"
           /\ fatal.err.msg = "Error unmarshaling JIRA response"
           /\ ~Made("GitHub POST")
           /\ ~posted.sent

\* The run printed the URL of the created pull request as its last line.
UrlPrinted ==
    /\ stdout # <<>>
    /\ stdout[Len(stdout)].format = "%s"
    /\ (githubResp.body = "{\"url\":\"https://api.github.com/repos/o/r/pulls/1\"}"
            => stdout[Len(stdout)].text = "https://api.github.com/repos/o/r/pulls/1")

\* C4: once the POST is answered, the run exits 0 with the pull request's
\* URL printed if and only if the status is 201; on any other status it
\* exits non-zero on an error holding the status and the body as received.
C4_CreatedIsOnlySuccess ==
    (pc = "done" /\ Made("GitHub POST") /\ githubResp.sent)
        => /\ (exitCode = 0 /\ UrlPrinted) <=> githubResp.status = 201
           /\ exitCode = 0 <=> githubResp.status = 201
           /\ githubResp.status # 201
                  => /\ exitCode = 1
                     /\ fatal.err.status = githubResp.status
                     /\ fatal.err.body = githubResp.body

(***************************************************************************)
(* The same three statements for the root entry point alone, where they    *)
(* hold.                                                                   *)
(***************************************************************************)
RootCreatedIsOnlySuccess == entry = "root" => C4_CreatedIsOnlySuccess
RootTitleAndBody == entry = "root" => C7_TitleAndBody
RootBaseIsDefaultBranch == entry = "root" => C8_BaseIsDefaultBranch
\* And C1 for cmd/cli/pr, which has no default-branch step.
CmdFailureIsTerminal == entry = "cmd" => C1_FailureIsTerminal

=============================================================================
